---- MODULE Spec2Model ----
(***************************************************************************)
(* Model of supabase/functions/magento-sync/sync_progress.ts: the sync     *)
(* progress tracker (updateSyncProgress, getSyncProgress) and the history  *)
(* recorder (recordSyncHistory) running against the sync_progress and      *)
(* sync_history tables.  Every await on the supabase client is one step;   *)
(* every clock read (new Date()) is one step; calls of different           *)
(* invocations interleave at these steps.                                  *)
(***************************************************************************)
EXTENDS Integers, Sequences, FiniteSets, TLC

\* ---------------------------------------------------------------- bounds
MaxRecords == 2      \* rows the sync_progress table may hold
MaxHistory == 2      \* rows the sync_history table may hold
MaxCount   == 2      \* largest counter value a caller passes
MaxPeriods == 1      \* how many 15-minute periods the clock may advance
MaxSubMs   == 1      \* how many single milliseconds the clock may advance

\* ------------------------------------------------------- program constants
StaleMinutes == 15                    \* line 93: diffMinutes > 15
MsPerMinute  == 1000 * 60             \* line 91: / (1000 * 60)
StaleMs      == StaleMinutes * MsPerMinute
TimeoutNote  == "Sync timed out after 15 minutes of inactivity"
Placeholder  == "PLACEHOLDER"
FirstPage    == 1

\* ------------------------------------------------------------------ inputs
Procs    == {"p1", "p2"}
Stores   == {"s1", "s2"}
Statuses == {"in_progress", "completed", "failed"}
Counts   == 0 .. MaxCount
Undefined == "undefined"
Null      == "null"
NotesIn  == {Undefined, "note"}
Outcomes == {"ok", "error", "throw"}

VARIABLES
    tableExists,     \* public.sync_progress is present in information_schema
    sync_progress,   \* the sync_progress table, row id = position
    sync_history,    \* the sync_history table
    clock,           \* Date.now(), in milliseconds
    pc,              \* position of each invocation
    loc              \* arguments, locals and return value of each invocation

vars == <<tableExists, sync_progress, sync_history, clock, pc, loc>>

\* ------------------------------------------------------------- timestamps
\* Date.prototype.toISOString: seconds and a three-digit millisecond field.
toISOString(ms) == [s |-> ms \div 1000, ms |-> ms % 1000]

\* new Date(iso).getTime()
getTime(iso) == iso.s * 1000 + iso.ms

NoTime == [s |-> 0, ms |-> 0]

\* ------------------------------------------------------------------ tables
Ids == 1 .. Len(sync_progress)

\* lines 168-173: .eq('store_id', storeId).eq('status', 'in_progress')
LookupRows_AnyStatus(storeId) ==
    {i \in Ids : sync_progress[i].store_id = storeId}

LookupRows_Completed(storeId) ==
    {i \in Ids : /\ sync_progress[i].store_id = storeId
                 /\ sync_progress[i].status = "completed"}

LookupRows(storeId) ==
    {i \in Ids : /\ sync_progress[i].store_id = storeId
                 /\ sync_progress[i].status = "in_progress"}

\* lines 62-67: .eq('store_id', storeId).order('updated_at', desc).limit(1);
\* rows with equal updated_at come back in an order the store chooses.
LatestRows(storeId) ==
    {i \in Ids :
        /\ sync_progress[i].store_id = storeId
        /\ \A j \in Ids : sync_progress[j].store_id = storeId =>
              getTime(sync_progress[j].updated_at) <= getTime(sync_progress[i].updated_at)}

\* lines 89-93: diffMinutes = (now - updatedAt) / (1000 * 60); diffMinutes > 15.
\* The quotient is a double; it exceeds 15 exactly when the millisecond
\* difference exceeds 15 * 60000.
IsStale_Inclusive(updated_at, now) ==
    (now - getTime(updated_at)) >= StaleMinutes * MsPerMinute

IsStale(updated_at, now) ==
    (now - getTime(updated_at)) > StaleMinutes * MsPerMinute

\* line 186: notes || null
NotesOrNull(notes) == IF notes = Undefined \/ notes = "" THEN Null ELSE notes

ProgressData_Restart(row, l) ==
    [row EXCEPT !.store_id = l.storeId,
                !.status = l.status,
                !.orders_processed = l.current,
                !.total_orders = l.total,
                !.updated_at = l.updated_at,
                !.notes = NotesOrNull(l.notes),
                !.started_at = l.updated_at]

ProgressData_KeepCounters(row, l) ==
    [row EXCEPT !.store_id = l.storeId,
                !.status = l.status,
                !.updated_at = l.updated_at,
                !.notes = NotesOrNull(l.notes)]

\* lines 180-187: progressData, applied to a row by update()
ProgressData(row, l) ==
    [row EXCEPT !.store_id = l.storeId,
                !.status = l.status,
                !.orders_processed = l.current,
                !.total_orders = l.total,
                !.updated_at = l.updated_at,
                !.notes = NotesOrNull(l.notes)]

\* lines 201-206: newProgressData, the row insert() creates
NewProgressData(l) ==
    [store_id |-> l.storeId, status |-> l.status,
     orders_processed |-> l.current, total_orders |-> l.total,
     updated_at |-> l.updated_at, notes |-> NotesOrNull(l.notes),
     connection_id |-> Placeholder, current_page |-> FirstPage,
     started_at |-> l.started_at]

StalePatch_ResetCounters(row, l) ==
    [row EXCEPT !.status = "failed",
                !.updated_at = l.updated_at,
                !.notes = TimeoutNote,
                !.orders_processed = 0]

\* lines 99-103: the patch of the stale reconciliation
StalePatch(row, l) ==
    [row EXCEPT !.status = "failed",
                !.updated_at = l.updated_at,
                !.notes = TimeoutNote]

\* ------------------------------------------------------------ invocations
NoData == [id |-> 0, status |-> Null, updated_at |-> NoTime]

NoRet == [success |-> FALSE, inProgress |-> FALSE, isStale |-> FALSE,
          error |-> FALSE, data |-> 0]

NoLoc == [fn |-> "none", storeId |-> Null, status |-> Null,
          current |-> 0, total |-> 0, notes |-> Undefined,
          existing |-> 0, updated_at |-> NoTime, started_at |-> NoTime,
          data |-> NoData, ret |-> NoRet]

Idle(p) == pc[p] \in {"idle", "done"}

\* a return ends the invocation: only its kind and its result remain
Return(p, r) ==
    /\ pc' = [pc EXCEPT ![p] = "done"]
    /\ loc' = [loc EXCEPT ![p] = [NoLoc EXCEPT !.fn = loc[p].fn, !.ret = r]]

Goto(p, label) == pc' = [pc EXCEPT ![p] = label]

\* lines 49-53, 72-76, 122-126
RetFailed == [NoRet EXCEPT !.success = FALSE, !.error = TRUE]
\* lines 58, 81
RetNone == [NoRet EXCEPT !.success = TRUE]
\* lines 115-119
RetProgress(inProgress, id) ==
    [NoRet EXCEPT !.success = TRUE, !.inProgress = inProgress, !.data = id]
\* lines 106-111
RetStale(id) ==
    [NoRet EXCEPT !.success = TRUE, !.isStale = TRUE, !.data = id]

Init ==
    /\ tableExists \in BOOLEAN
    /\ sync_progress = << >>
    /\ sync_history = << >>
    /\ clock = 0
    /\ pc = [p \in Procs |-> "idle"]
    /\ loc = [p \in Procs |-> NoLoc]

\* ------------------------------------------------------------------- clock
MaxClock == MaxPeriods * StaleMs + MaxSubMs

\* time passes by d milliseconds
Tick(d) ==
    /\ clock + d <= MaxClock
    /\ (clock % StaleMs) + (d % StaleMs) <= MaxSubMs
    /\ clock' = clock + d
    /\ UNCHANGED <<tableExists, sync_progress, sync_history, pc, loc>>

\* ------------------------------------------------------ updateSyncProgress
\* lines 131-137: the call
BeginUpdate(p, storeId, status, current, total, notes) ==
    /\ Idle(p)
    /\ pc' = [pc EXCEPT ![p] = "u_check"]
    /\ loc' = [loc EXCEPT ![p] =
                 [NoLoc EXCEPT !.fn = "update", !.storeId = storeId,
                               !.status = status, !.current = current,
                               !.total = total, !.notes = notes]]
    /\ UNCHANGED <<tableExists, sync_progress, sync_history, clock>>

\* lines 141-148: information_schema lookup
UCheck(p, out) ==
    /\ pc[p] = "u_check"
    /\ IF out = "throw"
         THEN Return(p, NoRet)
         ELSE /\ IF out = "error" \/ ~tableExists
                   THEN Goto(p, "u_create")
                   ELSE Goto(p, "u_lookup")
              /\ UNCHANGED loc
    /\ UNCHANGED <<tableExists, sync_progress, sync_history, clock>>

\* lines 151-164: rpc('create_sync_progress_table')
UCreate(p, out) ==
    /\ pc[p] = "u_create"
    /\ IF out = "ok"
         THEN /\ tableExists' = TRUE
              /\ Goto(p, "u_lookup")
              /\ UNCHANGED loc
         ELSE /\ Return(p, NoRet)
              /\ UNCHANGED tableExists
    /\ UNCHANGED <<sync_progress, sync_history, clock>>

ULookup_IgnoreError(p, out) ==
    /\ pc[p] = "u_lookup"
    /\ LET rows == LookupRows(loc[p].storeId) IN
         IF Cardinality(rows) > 1
           THEN Return(p, NoRet)
           ELSE /\ Goto(p, "u_build")
                /\ loc' = [loc EXCEPT ![p].existing =
                             IF rows = {} \/ out # "ok"
                               THEN 0 ELSE CHOOSE i \in rows : TRUE]
    /\ UNCHANGED <<tableExists, sync_progress, sync_history, clock>>

\* lines 168-178: select id of the in_progress row; maybeSingle() reports an
\* error when more than one row matches.
ULookup(p, out) ==
    /\ pc[p] = "u_lookup"
    /\ LET rows == LookupRows(loc[p].storeId) IN
         IF out # "ok" \/ Cardinality(rows) > 1
           THEN Return(p, NoRet)
           ELSE /\ Goto(p, "u_build")
                /\ loc' = [loc EXCEPT ![p].existing =
                             IF rows = {} THEN 0 ELSE CHOOSE i \in rows : TRUE]
    /\ UNCHANGED <<tableExists, sync_progress, sync_history, clock>>

\* lines 180-189: progressData, with the clock read of line 185
UBuild(p) ==
    /\ pc[p] = "u_build"
    /\ loc' = [loc EXCEPT ![p].updated_at = toISOString(clock)]
    /\ IF loc[p].existing # 0 THEN Goto(p, "u_update") ELSE Goto(p, "u_stamp")
    /\ UNCHANGED <<tableExists, sync_progress, sync_history, clock>>

\* lines 191-198: update(progressData).eq('id', existing.id)
UUpdate(p, out) ==
    /\ pc[p] = "u_update"
    /\ IF out = "ok"
         THEN sync_progress' = [sync_progress EXCEPT ![loc[p].existing] =
                                   ProgressData(@, loc[p])]
         ELSE UNCHANGED sync_progress
    /\ Return(p, NoRet)
    /\ UNCHANGED <<tableExists, sync_history, clock>>

\* lines 201-206: newProgressData, with the clock read of line 205
UStamp(p) ==
    /\ pc[p] = "u_stamp"
    /\ loc' = [loc EXCEPT ![p].started_at = toISOString(clock)]
    /\ Goto(p, "u_insert")
    /\ UNCHANGED <<tableExists, sync_progress, sync_history, clock>>

\* lines 208-215: insert(newProgressData)
UInsert(p, out) ==
    /\ pc[p] = "u_insert"
    /\ IF out = "ok"
         THEN /\ Len(sync_progress) < MaxRecords
              /\ sync_progress' = Append(sync_progress, NewProgressData(loc[p]))
         ELSE UNCHANGED sync_progress
    /\ Return(p, NoRet)
    /\ UNCHANGED <<tableExists, sync_history, clock>>

\* --------------------------------------------------------- getSyncProgress
\* line 35: the call
BeginGet(p, storeId) ==
    /\ Idle(p)
    /\ pc' = [pc EXCEPT ![p] = "g_check"]
    /\ loc' = [loc EXCEPT ![p] = [NoLoc EXCEPT !.fn = "get", !.storeId = storeId]]
    /\ UNCHANGED <<tableExists, sync_progress, sync_history, clock>>

\* lines 40-59: information_schema lookup
GCheck(p, out) ==
    /\ pc[p] = "g_check"
    /\ IF out # "ok"
         THEN Return(p, RetFailed)
         ELSE IF ~tableExists
                THEN Return(p, RetNone)
                ELSE Goto(p, "g_fetch") /\ UNCHANGED loc
    /\ UNCHANGED <<tableExists, sync_progress, sync_history, clock>>

\* lines 62-88: latest row of the store
GFetch(p, out) ==
    /\ pc[p] = "g_fetch"
    /\ IF out # "ok"
         THEN Return(p, RetFailed)
         ELSE IF LatestRows(loc[p].storeId) = {}
                THEN Return(p, RetNone)
                ELSE \E i \in LatestRows(loc[p].storeId) :
                       IF sync_progress[i].status = "in_progress"
                         THEN /\ Goto(p, "g_now")
                              /\ loc' = [loc EXCEPT ![p].data =
                                           [id |-> i,
                                            status |-> sync_progress[i].status,
                                            updated_at |-> sync_progress[i].updated_at]]
                         ELSE Return(p, RetProgress(FALSE, i))
    /\ UNCHANGED <<tableExists, sync_progress, sync_history, clock>>

\* lines 89-93 and 115-119: the clock read of line 90 and the staleness test
GNow(p) ==
    /\ pc[p] = "g_now"
    /\ IF IsStale(loc[p].data.updated_at, clock)
         THEN Goto(p, "g_stamp") /\ UNCHANGED loc
         ELSE Return(p, RetProgress(TRUE, loc[p].data.id))
    /\ UNCHANGED <<tableExists, sync_progress, sync_history, clock>>

\* lines 99-103: the patch, with the clock read of line 101
GStamp(p) ==
    /\ pc[p] = "g_stamp"
    /\ loc' = [loc EXCEPT ![p].updated_at = toISOString(clock)]
    /\ Goto(p, "g_update")
    /\ UNCHANGED <<tableExists, sync_progress, sync_history, clock>>

\* lines 97-111: update(patch).eq('id', data.id); the result is not inspected
GUpdate(p, out) ==
    /\ pc[p] = "g_update"
    /\ IF out = "ok"
         THEN sync_progress' = [sync_progress EXCEPT ![loc[p].data.id] =
                                   StalePatch(@, loc[p])]
         ELSE UNCHANGED sync_progress
    /\ IF out = "throw"
         THEN Return(p, RetFailed)
         ELSE Return(p, RetStale(loc[p].data.id))
    /\ UNCHANGED <<tableExists, sync_history, clock>>

\* ------------------------------------------------------- recordSyncHistory
\* line 19: error || null
ErrorOrNull(error) == IF error = Undefined \/ error = "" THEN Null ELSE error

\* lines 13-20: syncHistoryData, with the clock read of line 17
SyncHistoryData(storeId, ordersCount, productsCount, status, error) ==
    [store_id |-> storeId, orders_synced |-> ordersCount,
     products_synced |-> productsCount,
     sync_date |-> toISOString(clock),
     status |-> status, error_message |-> ErrorOrNull(error)]

recordSyncHistory_Replace(p, storeId, ordersCount, productsCount, status, error, out) ==
    /\ Idle(p)
    /\ IF out = "ok"
         THEN /\ Len(sync_history) < MaxHistory
              /\ sync_history' = <<SyncHistoryData(storeId, ordersCount,
                                     productsCount, status, error)>>
         ELSE UNCHANGED sync_history
    /\ pc' = [pc EXCEPT ![p] = "done"]
    /\ loc' = [loc EXCEPT ![p] = [NoLoc EXCEPT !.fn = "history"]]
    /\ UNCHANGED <<tableExists, sync_progress, clock>>

\* lines 5-32: one insert into sync_history; an error object and a rejection
\* are logged, nothing is returned
recordSyncHistory(p, storeId, ordersCount, productsCount, status, error, out) ==
    /\ Idle(p)
    /\ IF out = "ok"
         THEN /\ Len(sync_history) < MaxHistory
              /\ sync_history' = Append(sync_history,
                    SyncHistoryData(storeId, ordersCount, productsCount,
                                    status, error))
         ELSE UNCHANGED sync_history
    /\ pc' = [pc EXCEPT ![p] = "done"]
    /\ loc' = [loc EXCEPT ![p] = [NoLoc EXCEPT !.fn = "history"]]
    /\ UNCHANGED <<tableExists, sync_progress, clock>>

\* ---------------------------------------------------------- specifications
Quiet == \A q \in Procs : Idle(q)

Step(p, out) ==
    \/ UCheck(p, out)
    \/ UCreate(p, out)
    \/ ULookup(p, out)
    \/ UBuild(p)
    \/ UUpdate(p, out)
    \/ UStamp(p)
    \/ UInsert(p, out)
    \/ GCheck(p, out)
    \/ GFetch(p, out)
    \/ GNow(p)
    \/ GStamp(p)
    \/ GUpdate(p, out)

\* One step of the system under an environment e: the callers e.jobs issue
\* updateSyncProgress calls with arguments drawn from e.stores, e.statuses,
\* e.counts (pairs <<current, total>>) and e.notes; the callers e.pollers
\* issue getSyncProgress calls; the store answers with an outcome of
\* e.outcomes; the clock advances by a step of e.ticks; calls of different
\* callers overlap only if e.overlap is set.
Run(e) ==
    \/ \E d \in e.ticks : Tick(d)
    \/ \E p \in e.jobs, s \in e.stores, st \in e.statuses,
          ct \in e.counts, n \in e.notes :
          /\ e.overlap \/ Quiet
          /\ BeginUpdate(p, s, st, ct[1], ct[2], n)
    \/ \E p \in e.pollers, s \in e.stores :
          /\ e.overlap \/ Quiet
          /\ BeginGet(p, s)
    \/ \E p \in e.jobs \cup e.pollers, out \in e.outcomes : Step(p, out)

\* One caller issuing calls one after another on one store.
SeqEnv ==
    [jobs |-> {"p1"}, pollers |-> {"p1"}, stores |-> {"s1"}, statuses |-> Statuses,
     counts |-> {<<0, 0>>, <<1, MaxCount>>}, notes |-> {Undefined},
     outcomes |-> Outcomes, ticks |-> {StaleMs + 1}, overlap |-> FALSE]

SeqNext == Run(SeqEnv)

SeqSpec == Init /\ [][SeqNext]_vars

\* One caller issuing start and finish calls one after another on two stores.
StoresEnv ==
    [jobs |-> {"p1"}, pollers |-> {"p1"}, stores |-> Stores, statuses |-> Statuses,
     counts |-> {<<0, 0>>}, notes |-> {Undefined},
     outcomes |-> Outcomes, ticks |-> {StaleMs + 1}, overlap |-> FALSE]

StoresNext == Run(StoresEnv)

StoresSpec == Init /\ [][StoresNext]_vars

\* One caller, the clock stepping by one millisecond and by the staleness
\* threshold.
BoundaryEnv ==
    [jobs |-> {"p1"}, pollers |-> {"p1"}, stores |-> {"s1"}, statuses |-> {"in_progress", "completed"},
     counts |-> {<<0, 0>>}, notes |-> NotesIn,
     outcomes |-> Outcomes, ticks |-> {1, StaleMs}, overlap |-> FALSE]

BoundaryNext == Run(BoundaryEnv)

BoundarySpec == Init /\ [][BoundaryNext]_vars

\* Callers whose calls on one store overlap freely: two jobs, two pollers, or
\* a job and a poller; the store accepts every call.
ConcEnv ==
    [jobs |-> Procs, pollers |-> Procs, stores |-> {"s1"},
     statuses |-> {"in_progress", "completed"},
     counts |-> {<<0, 0>>}, notes |-> {Undefined},
     outcomes |-> {"ok"}, ticks |-> {StaleMs + 1}, overlap |-> TRUE]

Next == Run(ConcEnv)

Spec == Init /\ [][Next]_vars

\* One job, whose updateSyncProgress calls follow one another, and one
\* poller, whose getSyncProgress calls overlap them.
RaceEnv == [ConcEnv EXCEPT !.jobs = {"p1"}, !.pollers = {"p2"}]

RaceNext == Run(RaceEnv)

RaceSpec == Init /\ [][RaceNext]_vars

\* the fetch of lines 62-68 answers p with row i
FetchRow(p, i) ==
    /\ GFetch(p, "ok")
    /\ loc'[p].data.id = i \/ loc'[p].ret.data = i

\* The same system with the scheduling the claims on progress assume: time
\* keeps advancing, every call in flight is eventually answered, pollers keep
\* calling getSyncProgress, and among rows with equal updated_at the store
\* does not return the same one forever.
Fairness ==
    /\ WF_vars(\E d \in ConcEnv.ticks : Tick(d))
    /\ \A p \in Procs : WF_vars(Step(p, "ok"))
    /\ WF_vars(\E p \in Procs : BeginGet(p, "s1"))
    /\ \A p \in Procs, i \in 1 .. MaxRecords : SF_vars(FetchRow(p, i))

FairSpec == Spec /\ Fairness

\* A job that reports progress and records the end of each run in
\* sync_history, and a poller, never overlapping; e.history holds the pairs
\* <<status, error>> and e.synced the pairs <<ordersCount, productsCount>>
\* handed to recordSyncHistory.
HistEnv ==
    [jobs |-> {"p1"}, pollers |-> {"p1"}, stores |-> {"s1"},
     statuses |-> {"in_progress"},
     counts |-> {<<0, 0>>}, notes |-> {Undefined},
     outcomes |-> Outcomes, ticks |-> {StaleMs + 1}, overlap |-> FALSE,
     history |-> {<<"completed", Undefined>>, <<"failed", "timeout">>},
     synced |-> {<<MaxCount, 1>>}]

RecordHistory(e) ==
    \E p \in e.jobs, s \in e.stores, n \in e.synced, h \in e.history,
       out \in e.outcomes :
        /\ e.overlap \/ Quiet
        /\ recordSyncHistory(p, s, n[1], n[2], h[1], h[2], out)

HistNext == Run(HistEnv) \/ RecordHistory(HistEnv)

HistSpec == Init /\ [][HistNext]_vars

\* ------------------------------------------------------------------ claims
Terminal(row) == row.status \in {"completed", "failed"}

ActiveIds(storeId) ==
    {i \in 1 .. Len(sync_progress) :
        /\ sync_progress[i].store_id = storeId
        /\ sync_progress[i].status = "in_progress"}

\* C1: with calls that do not overlap, every store has at most one
\* sync_progress row with status 'in_progress'.
C1_AtMostOneActive ==
    \A s \in Stores : Cardinality(ActiveIds(s)) <= 1

\* A second start on a store whose row is active has been applied: the row is
\* in_progress with zero counters, was updated after it was created, and is
\* the only active row of its store.
C1_Witness ==
    \E i \in 1 .. Len(sync_progress) :
        /\ sync_progress[i].status = "in_progress"
        /\ sync_progress[i].orders_processed = 0
        /\ sync_progress[i].total_orders = 0
        /\ getTime(sync_progress[i].updated_at) > getTime(sync_progress[i].started_at)
        /\ ActiveIds(sync_progress[i].store_id) = {i}

\* C4: with calls that do not overlap, no step changes the status,
\* orders_processed or total_orders of a row that is completed or failed.
C4_TerminalImmutable ==
    [][\A i \in 1 .. Len(sync_progress) :
          Terminal(sync_progress[i]) =>
             /\ sync_progress'[i].status = sync_progress[i].status
             /\ sync_progress'[i].orders_processed = sync_progress[i].orders_processed
             /\ sync_progress'[i].total_orders = sync_progress[i].total_orders]_vars

\* A store holds a finished row and a younger row written by a later call
\* with other counters.
C4_Witness ==
    \E i, j \in 1 .. Len(sync_progress) :
        /\ i < j
        /\ sync_progress[i].store_id = sync_progress[j].store_id
        /\ Terminal(sync_progress[i])
        /\ sync_progress[j].status = "in_progress"
        /\ sync_progress[j].orders_processed # sync_progress[i].orders_processed
        /\ sync_progress[j].total_orders # sync_progress[i].total_orders
        /\ getTime(sync_progress[j].updated_at) > getTime(sync_progress[j].started_at)

\* an updateSyncProgress call of p is in flight
Updating(p) == loc[p].fn = "update" /\ ~Idle(p)

\* C2: when start calls on one store overlap, only one of them inserts: the
\* store never holds two in_progress rows.
C2_ConcurrentStartOneInsert ==
    \A i, j \in 1 .. Len(sync_progress) :
        (/\ sync_progress[i].store_id = sync_progress[j].store_id
         /\ sync_progress[i].status = "in_progress"
         /\ sync_progress[j].status = "in_progress") => i = j

\* C3: with overlapping calls of a job and of pollers, a row that is
\* completed or failed keeps its status in every step.
C3_NoExitFromTerminal ==
    [][\A i \in 1 .. Len(sync_progress) :
          Terminal(sync_progress[i]) =>
             sync_progress'[i].status = sync_progress[i].status]_vars

\* C5: a getSyncProgress call that found the latest row in_progress and
\* stale returns inProgress false with isStale set, and on its return the row
\* is failed with the timeout note, whatever the store answered to the update.
C5_SelfHealingRead ==
    [][\A p \in Procs :
          (pc[p] = "g_update" /\ pc'[p] = "done") =>
             /\ loc'[p].ret.inProgress = FALSE
             /\ loc'[p].ret.isStale = TRUE
             /\ sync_progress'[loc[p].data.id].status = "failed"
             /\ sync_progress'[loc[p].data.id].notes = TimeoutNote]_vars

\* C6: getSyncProgress takes the stale branch for an in_progress row exactly
\* when the clock read is more than 900 000 ms after the row's updated_at;
\* otherwise it returns inProgress true and writes nothing; the write of the
\* stale branch, when the store applies it, makes the row failed.
C6_StalenessBoundary ==
    [][\A p \in Procs :
          /\ (pc[p] = "g_now" /\ pc'[p] # "g_now") =>
                LET diff == clock - getTime(loc[p].data.updated_at) IN
                  /\ (diff > 900000) <=> (pc'[p] = "g_stamp")
                  /\ (diff <= 900000) =>
                        /\ pc'[p] = "done"
                        /\ loc'[p].ret.success
                        /\ loc'[p].ret.inProgress
                        /\ ~loc'[p].ret.isStale
                        /\ sync_progress' = sync_progress
          /\ (pc[p] = "g_update" /\ sync_progress' # sync_progress) =>
                /\ sync_progress'[loc[p].data.id].status = "failed"
                /\ (getTime(sync_progress'[loc[p].data.id].updated_at)
                       - getTime(loc[p].data.updated_at)) > 900000]_vars

\* A row created at 0 and never reported on was reconciled by a read at
\* exactly 900 001 ms, and the read has returned it as stale.
C6_Witness ==
    \E p \in Procs, i \in 1 .. Len(sync_progress) :
        /\ pc[p] = "done"
        /\ loc[p].ret.isStale
        /\ loc[p].ret.data = i
        /\ sync_progress[i].status = "failed"
        /\ sync_progress[i].notes = TimeoutNote
        /\ getTime(sync_progress[i].updated_at)
              - getTime(sync_progress[i].started_at) = 900001

\* C8: while a store has no in_progress row, no step of a progress report
\* (status 'in_progress', current > 0) on that store changes sync_progress.
C8_ReportWithoutActiveNoop ==
    [][\A p \in Procs :
          (/\ Updating(p)
           /\ loc[p].status = "in_progress"
           /\ loc[p].current > 0
           /\ ActiveIds(loc[p].storeId) = {}) =>
             sync_progress' = sync_progress]_vars

\* C9: while a store has an in_progress row, no step of a start call
\* (status 'in_progress', current 0, total 0) on that store changes
\* sync_progress.
C9_StartOnActiveNoop ==
    [][\A p \in Procs :
          (/\ Updating(p)
           /\ loc[p].status = "in_progress"
           /\ loc[p].current = 0
           /\ loc[p].total = 0
           /\ ActiveIds(loc[p].storeId) # {}) =>
             sync_progress' = sync_progress]_vars

\* C10: every row added to sync_progress is added with status 'in_progress',
\* orders_processed 0 and total_orders 0.
C10_CreatedInProgressZero ==
    [][Len(sync_progress') > Len(sync_progress) =>
          LET row == sync_progress'[Len(sync_progress')] IN
            /\ row.status = "in_progress"
            /\ row.orders_processed = 0
            /\ row.total_orders = 0]_vars

\* no updateSyncProgress call is in flight
JobStopped == \A p \in Procs : ~Updating(p)

\* time has advanced past the 15 minutes of every row still in_progress
TimePassed ==
    \A i \in 1 .. Len(sync_progress) :
        sync_progress[i].status = "in_progress" =>
            clock - getTime(sync_progress[i].updated_at) > 900000

NoneActive ==
    \A i \in 1 .. Len(sync_progress) : sync_progress[i].status # "in_progress"

\* C7: once the job has stopped calling updateSyncProgress and time has
\* advanced past the 15 minutes of every row still in_progress, with pollers
\* calling getSyncProgress again and again and the store accepting every
\* call, eventually no row has status 'in_progress'.
C7_EventualReconciliation ==
    ((<>[]JobStopped) /\ (<>[]TimePassed)) => <>[]NoneActive

\* a store call of a getSyncProgress call of p fails in this step
GetCallFails(p) ==
    \E out \in {"error", "throw"} :
        GCheck(p, out) \/ GFetch(p, out) \/ GUpdate(p, out)

\* C11: a step in which a store call of getSyncProgress fails (the table
\* check, the fetch of the latest row or the update of the stale row) ends
\* the call with success false and inProgress false.
C11_ReadErrorsSurfaced ==
    [][\A p \in Procs :
          GetCallFails(p) =>
             /\ pc'[p] = "done"
             /\ loc'[p].ret.success = FALSE
             /\ loc'[p].ret.inProgress = FALSE]_vars

\* the provisioning or the lookup of an updateSyncProgress call of p fails
\* in this step
ProvisionOrLookupFails(p) ==
    \E out \in {"error", "throw"} : UCreate(p, out) \/ ULookup(p, out)

\* a store call of an updateSyncProgress call of p rejects in this step
UpdateCallThrows(p) ==
    \/ UCheck(p, "throw") \/ UCreate(p, "throw") \/ ULookup(p, "throw")
    \/ UUpdate(p, "throw") \/ UInsert(p, "throw")

\* C12: a step in which create_sync_progress_table or the lookup of the
\* in_progress row fails ends the updateSyncProgress call with sync_progress
\* as it was, and a store call that rejects ends the call with an ordinary
\* return that wrote nothing.
C12_WriteErrorsNonFatal ==
    [][\A p \in Procs :
          /\ ProvisionOrLookupFails(p) =>
                /\ pc'[p] = "done"
                /\ loc'[p].ret = NoRet
                /\ sync_progress' = sync_progress
                /\ tableExists' = tableExists
          /\ UpdateCallThrows(p) =>
                /\ pc'[p] = "done"
                /\ loc'[p].ret = NoRet
                /\ sync_progress' = sync_progress]_vars

\* An updateSyncProgress call has returned while the table is still missing
\* and no row exists: its table check rejected or its provisioning failed.
C12_Witness ==
    \E p \in Procs :
        /\ pc[p] = "done"
        /\ loc[p].fn = "update"
        /\ ~tableExists
        /\ sync_progress = << >>

\* C13: sync_history only grows, by one entry per step and at its end, and
\* only in a step of recordSyncHistory; a recordSyncHistory call whose insert
\* succeeds appends exactly its entry, one whose insert fails or rejects
\* leaves sync_history as it was, both return and leave sync_progress as it
\* was; no step of updateSyncProgress or getSyncProgress changes sync_history.
C13_HistoryAppendOnly ==
    [][/\ Len(sync_history') \in {Len(sync_history), Len(sync_history) + 1}
       /\ SubSeq(sync_history', 1, Len(sync_history)) = sync_history
       /\ sync_history' # sync_history =>
             \E p \in Procs : Idle(p) /\ pc'[p] = "done" /\ loc'[p].fn = "history"
       /\ \A p \in Procs :
             (~Idle(p) \/ loc'[p].fn \in {"update", "get"}) =>
                 sync_history' = sync_history
       /\ \A p \in Procs, s \in HistEnv.stores, n \in HistEnv.synced,
             h \in HistEnv.history :
             /\ recordSyncHistory(p, s, n[1], n[2], h[1], h[2], "ok") =>
                   /\ sync_history' =
                         Append(sync_history,
                                [store_id |-> s, orders_synced |-> n[1],
                                 products_synced |-> n[2],
                                 sync_date |-> toISOString(clock),
                                 status |-> h[1],
                                 error_message |->
                                     IF h[2] = Undefined THEN Null ELSE h[2]])
                   /\ pc'[p] = "done"
                   /\ sync_progress' = sync_progress
             /\ (\E out \in {"error", "throw"} :
                    recordSyncHistory(p, s, n[1], n[2], h[1], h[2], out)) =>
                   /\ sync_history' = sync_history
                   /\ pc'[p] = "done"
                   /\ sync_progress' = sync_progress]_vars

\* Two recordSyncHistory calls of different outcome have been applied while
\* sync_progress holds a row: the older entry is still the first one.
C13_Witness ==
    /\ Len(sync_history) = 2
    /\ sync_history[1].status = "completed"
    /\ sync_history[1].error_message = Null
    /\ sync_history[2].status = "failed"
    /\ sync_history[2].error_message = "timeout"
    /\ getTime(sync_history[2].sync_date) > getTime(sync_history[1].sync_date)
    /\ Len(sync_progress) > 0

\* C14: in every state every sync_progress row has updated_at no earlier
\* than started_at.
C14_UpdatedNotBeforeStarted ==
    \A i \in 1 .. Len(sync_progress) :
        getTime(sync_progress[i].updated_at) >= getTime(sync_progress[i].started_at)

\* A job that reports progress of one store, and a poller, never overlapping,
\* on a store that accepts every call.
ReportEnv ==
    [SeqEnv EXCEPT !.statuses = {"in_progress", "completed"},
                   !.counts = {<<0, 0>>, <<1, MaxCount>>, <<MaxCount, MaxCount>>},
                   !.outcomes = {"ok"}]

ReportNext == Run(ReportEnv)

ReportSpec == Init /\ [][ReportNext]_vars

\* C15: with calls that do not overlap and a store that accepts every call,
\* an in_progress report on a store whose row is in_progress returns with
\* that row still the store's one in_progress row, its orders_processed and
\* total_orders equal to the report's current and total, and no row added.
C15_LastReportWins ==
    [][\A p \in Procs :
          (/\ Updating(p)
           /\ loc[p].status = "in_progress"
           /\ ActiveIds(loc[p].storeId) # {}
           /\ pc'[p] = "done") =>
             /\ Len(sync_progress') = Len(sync_progress)
             /\ \A i \in ActiveIds(loc[p].storeId) :
                   /\ sync_progress'[i].status = "in_progress"
                   /\ sync_progress'[i].orders_processed = loc[p].current
                   /\ sync_progress'[i].total_orders = loc[p].total]_vars

\* Two reports after the start have been applied to the one row of the
\* store: it is in_progress with the counters of the later report.
C15_Witness ==
    /\ Len(sync_progress) = 1
    /\ sync_progress[1].status = "in_progress"
    /\ sync_progress[1].orders_processed = MaxCount
    /\ sync_progress[1].total_orders = MaxCount
    /\ getTime(sync_progress[1].updated_at) > getTime(sync_progress[1].started_at)
    /\ \E p \in Procs : pc[p] = "done" /\ loc[p].fn = "update"

\* C16: no step changes the started_at of an existing sync_progress row or
\* removes a row, with calls of a job and of a poller overlapping.
C16_StartedAtWriteOnce ==
    [][/\ Len(sync_progress') >= Len(sync_progress)
       /\ \A i \in 1 .. Len(sync_progress) :
             sync_progress'[i].started_at = sync_progress[i].started_at]_vars

\* Both writers have acted on existing rows: a row created at 0 has been
\* reconciled by the poller at a later time, and a younger row has been
\* updated by a call of the job after its creation.
C16_Witness ==
    \E i, j \in 1 .. Len(sync_progress) :
        /\ i < j
        /\ getTime(sync_progress[i].started_at) = 0
        /\ getTime(sync_progress[i].updated_at) > 0
        /\ sync_progress[i].status = "failed"
        /\ sync_progress[i].notes = TimeoutNote
        /\ getTime(sync_progress[j].updated_at) > getTime(sync_progress[j].started_at)

\* A job whose reports include one with more processed orders than total
\* orders, and a poller, never overlapping.
CountsEnv ==
    [SeqEnv EXCEPT !.counts = {<<0, 0>>, <<1, MaxCount>>, <<MaxCount, 1>>}]

CountsNext == Run(CountsEnv)

CountsSpec == Init /\ [][CountsNext]_vars

\* C17: every sync_progress row with total_orders > 0 has
\* orders_processed <= total_orders.
C17_CounterBound ==
    \A i \in 1 .. Len(sync_progress) :
        sync_progress[i].total_orders > 0 =>
            sync_progress[i].orders_processed <= sync_progress[i].total_orders

\* the rows of a store with the greatest updated_at
Newest(storeId) ==
    {i \in 1 .. Len(sync_progress) :
        /\ sync_progress[i].store_id = storeId
        /\ \A j \in 1 .. Len(sync_progress) :
              sync_progress[j].store_id = storeId =>
                 getTime(sync_progress[j].updated_at)
                    <= getTime(sync_progress[i].updated_at)}

\* a getSyncProgress call of p is in flight
Getting(p) == loc[p].fn = "get" /\ ~Idle(p)

\* C18: with calls that do not overlap, a step of getSyncProgress changes
\* sync_progress only if the store's newest row is in_progress with an
\* updated_at more than 900 000 ms before the current time, and then changes
\* that row only; a getSyncProgress call returns inProgress true only if the
\* store's newest row is in_progress with an updated_at at most 900 000 ms
\* before the current time; no step of it changes sync_history or provisions
\* the table.
C18_ReadPureUnlessStale ==
    [][\A p \in Procs :
          Getting(p) =>
             /\ sync_progress' # sync_progress =>
                   \E i \in Newest(loc[p].storeId) :
                      /\ sync_progress[i].status = "in_progress"
                      /\ clock - getTime(sync_progress[i].updated_at) > 900000
                      /\ \A j \in 1 .. Len(sync_progress) :
                            j # i => sync_progress'[j] = sync_progress[j]
                      /\ Len(sync_progress') = Len(sync_progress)
             /\ (pc'[p] = "done" /\ loc'[p].ret.inProgress) =>
                   /\ sync_progress' = sync_progress
                   /\ loc'[p].ret.success
                   /\ loc'[p].ret.data \in Newest(loc[p].storeId)
                   /\ sync_progress[loc'[p].ret.data].status = "in_progress"
                   /\ clock - getTime(sync_progress[loc'[p].ret.data].updated_at)
                         <= 900000
             /\ sync_history' = sync_history
             /\ tableExists' = tableExists]_vars

\* A getSyncProgress call has returned inProgress true for the row of its
\* store when that row was exactly 900 000 ms old, and has left it
\* in_progress with its old updated_at.
C18_Witness ==
    \E p \in Procs, i \in 1 .. Len(sync_progress) :
        /\ pc[p] = "done"
        /\ loc[p].fn = "get"
        /\ loc[p].ret.success
        /\ loc[p].ret.inProgress
        /\ loc[p].ret.data = i
        /\ sync_progress[i].status = "in_progress"
        /\ clock - getTime(sync_progress[i].updated_at) = 900000

\* C19: the update step of a stale reconciliation leaves every row other
\* than the one the call read as it was, adds no row, and leaves the
\* store_id, orders_processed, total_orders, started_at, connection_id and
\* current_page of that row as they were.
C19_ReconciliationKeepsCounters ==
    [][\A p \in Procs :
          (pc[p] = "g_update" /\ pc'[p] = "done") =>
             LET id == loc[p].data.id IN
               /\ Len(sync_progress') = Len(sync_progress)
               /\ \A j \in 1 .. Len(sync_progress) :
                     j # id => sync_progress'[j] = sync_progress[j]
               /\ sync_progress'[id] =
                     [sync_progress[id] EXCEPT
                         !.status = sync_progress'[id].status,
                         !.updated_at = sync_progress'[id].updated_at,
                         !.notes = sync_progress'[id].notes]]_vars

\* A row with counters 1 of MaxCount has been reconciled next to another row
\* of the table: it is failed with the timeout note and still has its
\* counters and its started_at.
C19_Witness ==
    \E i, j \in 1 .. Len(sync_progress) :
        /\ i # j
        /\ sync_progress[i].status = "failed"
        /\ sync_progress[i].notes = TimeoutNote
        /\ sync_progress[i].orders_processed = 1
        /\ sync_progress[i].total_orders = MaxCount
        /\ getTime(sync_progress[i].updated_at) > getTime(sync_progress[i].started_at)

\* C20: with calls of a job and of a poller overlapping and a clock that
\* never goes back, no step lowers the updated_at of a sync_progress row.
C20_UpdatedAtMonotone ==
    [][\A i \in 1 .. Len(sync_progress) :
          getTime(sync_progress'[i].updated_at)
             >= getTime(sync_progress[i].updated_at)]_vars

\* C21: with a store that accepts every call, a finish call (status
\* 'completed' or 'failed') that reaches its lookup or its update while the
\* store has an in_progress row does not return before one of the store's
\* in_progress rows has the status of the call.
C21_JobCanClose ==
    [][\A p \in Procs :
          (/\ Updating(p)
           /\ pc[p] \in {"u_lookup", "u_update"}
           /\ Terminal(loc[p])
           /\ ActiveIds(loc[p].storeId) # {}
           /\ pc'[p] = "done") =>
             \E i \in ActiveIds(loc[p].storeId) :
                 sync_progress'[i].status = loc[p].status]_vars
====
